---- MODULE Spec2Model ----
(***************************************************************************)
(* A model of the furniture catalogue: the FurnitureData storage shim      *)
(* (src/js/data.js), the admin panel that edits the stored collection      *)
(* (src/unnamed/part_000) and the public showcase page that displays it    *)
(* (src/js/showcase.js).                                                   *)
(*                                                                         *)
(* Representation.  A JavaScript string that the code searches or trims    *)
(* (name, description, search query) is a sequence of one-character        *)
(* strings.  A timestamp (Date.now(), new Date().toISOString()) is the     *)
(* integer reading of the clock `now`; the ISO text and the Date parsed    *)
(* from it carry the same millisecond count.  A JSON text is a record      *)
(* [kind, indent, value]: kind "none" is the null that getItem returns     *)
(* for a missing key, "garbage" is text JSON.parse rejects, "json" is      *)
(* well-formed text whose parsed value is `value`.                         *)
(***************************************************************************)
EXTENDS Integers, Sequences, FiniteSets, TLC

VARIABLES
    now,              \* the wall clock, in milliseconds
    localStorage,     \* the text stored under FurnitureData.STORAGE_KEY
    sessionAuth,      \* sessionStorage[AUTH_KEY] === 'true'
    adminPc,          \* admin page: "login", "loginError" (login form with the error shown), "fetching" (init awaits the seed), "panel"
    formOpen,         \* itemFormSection is displayed (itemsListSection hidden)
    currentEditId,    \* AdminPanel.currentEditId
    uploadedImages,   \* AdminPanel.uploadedImages
    showPc,           \* showcase page: "unopened", "fetching", "ready"
    state,            \* showcase.js state: furniture, filteredFurniture, currentFilter, currentSort, searchQuery
    storageEvents,    \* storage events dispatched to the showcase window, not yet handled
    last,             \* the last FurnitureData-level call and what it returned
    writes,           \* how many times the stored text has changed
    sortCall,         \* a call of sortFurniture: [items (the argument array, after the call), method, result]
    img,              \* a call of processImage: the picture, the canvas, quality, dataUrl, where it stands
    search,           \* the search box: its value, the debounce timer, the clock in milliseconds
    messageBox        \* the admin page's #messageBox: shown or not, its class, the pending hide timers, the clock in milliseconds

vars == <<now, localStorage, sessionAuth, adminPc, formOpen, currentEditId,
          uploadedImages, showPc, state, storageEvents, last, writes, sortCall,
          img, search, messageBox>>

pureVars == <<sortCall, img, search, messageBox>>
othersVars == <<sortCall, img, search>>
adminVars == <<sessionAuth, adminPc, formOpen, currentEditId, uploadedImages>>
showVars == <<showPc, state>>

-----------------------------------------------------------------------------
(* Bounds of the model *)

\* The clock stops advancing here.
MaxTime == 1
\* The storage quota, in the units of ItemSize.
Quota == 5
\* Storage events that may be waiting for the showcase window.
MaxEvents == 1
\* Changes of the stored text in one behaviour.
MaxWrites == 2
\* The outcomes of Math.random().toString(36).substr(2, 9) that are drawn.
RandomSuffixes == {0, 1}
\* The data URLs that image processing can produce.
ImageUrls == {"img1", "img2"}
\* The number of images the admin uploads into one form.
MaxImages == 1
\* The longest array handed to sortFurniture on its own.
MaxSortLen == 3
\* The items of a store that updateItem and deleteItem are called on.
MaxStored == 2
\* How long the search box is watched, in milliseconds, and the input
\* events of one burst.
MaxClock == 900
MaxBurst == 3
\* The cards on a showcase page whose lightbox is exercised.
MaxCards == 3
\* The images in the item form when they are reordered, and how long the
\* message box is watched, in milliseconds.
MaxFormImages == 3
MaxMessageClock == 4000

-----------------------------------------------------------------------------
(* Program constants *)

STORAGE_KEY == "furniture_items"
LISTENER_KEY == "furnitureData"
ADMIN_PASSWORD == "furniture2024"
Statuses == {"available", "pending", "sold"}
Filters == {"all"} \cup Statuses
SortMethods == {"default", "price-low", "price-high", "newest", "oldest"}

\* An absent (undefined) numeric property: a timestamp or a price.
NoNumber == -1
\* An absent (undefined) string-valued or boolean-valued property.
Undefined == "undefined"
\* currentEditId === null, and the id of an object literal that has no id yet.
NoId == <<-1, -1>>

-----------------------------------------------------------------------------
(* Strings *)

toLowerCaseChar(c) ==
    CASE c = "A" -> "a" [] c = "B" -> "b" [] c = "C" -> "c" [] OTHER -> c

toLowerCase(s) == [i \in 1..Len(s) |-> toLowerCaseChar(s[i])]

\* String.prototype.includes: q occurs in s as a substring.
includes(s, q) ==
    \E i \in 0..(Len(s) - Len(q)) : SubSeq(s, i + 1, i + Len(q)) = q

RECURSIVE trimStart(_)
trimStart(s) ==
    IF s # <<>> /\ Head(s) = " " THEN trimStart(Tail(s)) ELSE s

RECURSIVE trimEnd(_)
trimEnd(s) ==
    IF s # <<>> /\ s[Len(s)] = " " THEN trimEnd(SubSeq(s, 1, Len(s) - 1)) ELSE s

trim(s) == trimEnd(trimStart(s))

CopySuffix == <<" ", "(", "C", "o", "p", "y", ")">>

-----------------------------------------------------------------------------
(* Arrays *)

\* Array.prototype.filter
RECURSIVE filter(_, _)
filter(arr, keep) ==
    IF arr = <<>> THEN <<>>
    ELSE IF Head(arr) \in keep THEN <<Head(arr)>> \o filter(Tail(arr), keep)
         ELSE filter(Tail(arr), keep)

Elems(arr) == {arr[i] : i \in 1..Len(arr)}

\* Array.prototype.findIndex on item.id === id; 0 stands for -1 (not found).
findIndex(items, id) ==
    IF \E i \in 1..Len(items) : items[i].id = id
    THEN CHOOSE i \in 1..Len(items) :
            /\ items[i].id = id
            /\ \A j \in 1..(i - 1) : items[j].id # id
    ELSE 0

-----------------------------------------------------------------------------
(* JSON values and texts *)

JArray(elems) == [t |-> "array", elems |-> elems]
\* A value that is not an array: t is "undefined", "null", "string" or "object".
JScalar(t) == [t |-> t, elems |-> <<>>]
JObject(items, lastUpdated) ==
    [t |-> "object", items |-> items, lastUpdated |-> lastUpdated]
\* A top-level value that is not an object: t is "null", "number" or "array".
\* Reading .items of it gives undefined (or throws, for null).
JTop(t) == [t |-> t, items |-> JScalar("undefined"), lastUpdated |-> NoNumber]

NoText == [kind |-> "none", indent |-> 0, value |-> JTop("null")]
Garbage == [kind |-> "garbage", indent |-> 0, value |-> JTop("null")]

JSONstringify(value, indent) ==
    [kind |-> "json", indent |-> indent, value |-> value]

\* JSON.parse: throws a SyntaxError on text that is not JSON; the
\* indentation of the text does not show in the value.
JSONparse(text) ==
    [threw |-> text.kind # "json", value |-> text.value]

\* !v for a property value: undefined and null are falsy; arrays, objects
\* and the (non-empty) string are truthy.
Falsy(v) == v.t \in {"undefined", "null"}

-----------------------------------------------------------------------------
(* Items *)

Item(id, name, description, price, status, images, hidden, dateAdded, dateUpdated, retailPrice, productLink) ==
    [id |-> id, name |-> name, description |-> description, price |-> price,
     status |-> status, images |-> images, hidden |-> hidden,
     dateAdded |-> dateAdded, dateUpdated |-> dateUpdated,
     retailPrice |-> retailPrice, productLink |-> productLink]

\* The length of an item's JSON text: a fixed part for the scalar fields
\* and one unit for each embedded image.
ItemSize(item) == 2 + Len(item.images)

RECURSIVE ItemsSize(_)
ItemsSize(items) ==
    IF items = <<>> THEN 0 ELSE ItemSize(Head(items)) + ItemsSize(Tail(items))

TextSize(text) ==
    IF text.kind = "json" /\ text.value.items.t = "array"
    THEN ItemsSize(text.value.items.elems)
    ELSE 0

-----------------------------------------------------------------------------
(* localStorage *)

\* localStorage.setItem under STORAGE_KEY: throws QuotaExceededError, and
\* stores nothing, when the text does not fit the quota.
setItem(ls, text) ==
    IF TextSize(text) <= Quota
    THEN [threw |-> FALSE, ls |-> text]
    ELSE [threw |-> TRUE, ls |-> ls]

-----------------------------------------------------------------------------
(* FurnitureData (src/js/data.js).  An operation that may write takes the  *)
(* stored text and the clock and gives [ret, ls, alert]: what it returns,   *)
(* the stored text afterwards, and whether saveItems raised the            *)
(* 'Storage quota exceeded' alert.                                         *)

Returned(ret, ls) == [ret |-> ret, ls |-> ls, alert |-> FALSE]

loadItems(ls) ==
    IF ls.kind = "none" THEN <<>>
    ELSE LET parsed == JSONparse(ls) IN
         IF parsed.threw \/ parsed.value.t = "null" THEN <<>>
         ELSE IF Falsy(parsed.value.items) THEN <<>>
         ELSE parsed.value.items.elems

\* saveItems with `return true` reached after the catch as well.
saveItemsAlwaysTrue(ls, items, t) ==
    LET data == JObject(JArray(items), t)
        w == setItem(ls, JSONstringify(data, 0))
    IN  [ret |-> TRUE, ls |-> w.ls, alert |-> w.threw]

saveItems(ls, items, t) ==
    LET data == JObject(JArray(items), t)
        w == setItem(ls, JSONstringify(data, 0))
    IN  IF w.threw THEN [ret |-> FALSE, ls |-> w.ls, alert |-> TRUE]
        ELSE [ret |-> TRUE, ls |-> w.ls, alert |-> FALSE]

\* The item found, as [found, item].
getItemById(ls, id) ==
    LET items == loadItems(ls)
        index == findIndex(items, id)
    IN  IF index = 0 THEN [found |-> FALSE, item |-> Undefined]
        ELSE [found |-> TRUE, item |-> items[index]]

addItem(ls, item, t) ==
    saveItems(ls, Append(loadItems(ls), item), t)

\* updateItem with the spread last: { id, dateUpdated, ...updatedItem }.
updateItemSpreadLast(ls, id, updatedItem, t) ==
    LET items == loadItems(ls)
        index == findIndex(items, id)
    IN  IF index = 0 THEN Returned(FALSE, ls)
        ELSE saveItems(ls, [items EXCEPT ![index] = updatedItem], t)

updateItem(ls, id, updatedItem, t) ==
    LET items == loadItems(ls)
        index == findIndex(items, id)
    IN  IF index = 0 THEN Returned(FALSE, ls)
        ELSE saveItems(ls,
                 [items EXCEPT ![index] =
                     [updatedItem EXCEPT !.id = id, !.dateUpdated = t]],
                 t)

\* deleteItem without the test that something was removed.
deleteItemAlwaysSaves(ls, id, t) ==
    LET items == loadItems(ls)
    IN  saveItems(ls, filter(items, {x \in Elems(items) : x.id # id}), t)

\* deleteItem that removes the first item of the id only (findIndex and
\* splice).
deleteItemFirstOnly(ls, id, t) ==
    LET items == loadItems(ls)
        index == findIndex(items, id)
    IN  IF index = 0 THEN Returned(FALSE, ls)
        ELSE saveItems(ls,
                 [k \in 1..(Len(items) - 1) |->
                     IF k < index THEN items[k] ELSE items[k + 1]],
                 t)

deleteItem(ls, id, t) ==
    LET items == loadItems(ls)
        filteredItems == filter(items, {x \in Elems(items) : x.id # id})
    IN  IF Len(filteredItems) = Len(items) THEN Returned(FALSE, ls)
        ELSE saveItems(ls, filteredItems, t)

\* `item-${Date.now()}-${Math.random()...}`: the clock reading and the
\* random suffix drawn.
generateId(t, r) == <<t, r>>

\* exportData that stringifies the array itself, not { items }.
exportDataBareArray(ls) ==
    JSONstringify(JTop("array"), 2)

exportData(ls) ==
    JSONstringify(JObject(JArray(loadItems(ls)), NoNumber), 2)

\* importData without the Array.isArray test.
importDataNoArrayCheck(ls, jsonString, t) ==
    LET parsed == JSONparse(jsonString)
        data == parsed.value
    IN  IF parsed.threw THEN Returned(FALSE, ls)
        ELSE IF data.t = "null" THEN Returned(FALSE, ls)
        ELSE IF Falsy(data.items) THEN Returned(FALSE, ls)
        ELSE saveItems(ls, data.items.elems, t)

importData(ls, jsonString, t) ==
    LET parsed == JSONparse(jsonString)
        data == parsed.value
    IN  IF parsed.threw THEN Returned(FALSE, ls)
        ELSE IF data.t = "null" THEN Returned(FALSE, ls)
        ELSE IF Falsy(data.items) \/ data.items.t # "array"
             THEN Returned(FALSE, ls)
        ELSE saveItems(ls, data.items.elems, t)

\* FurnitureData.init up to its first await: the items already stored.
initExisting(ls) == loadItems(ls)

\* init that seeds the store but falls through to `return []`.
initFetchedFallThrough(ls, response, t) ==
    IF response.fetch # "ok" THEN Returned(<<>>, ls)
    ELSE LET parsed == JSONparse(response.body)
             data == parsed.value
         IN  IF parsed.threw \/ data.t = "null" THEN Returned(<<>>, ls)
             ELSE LET items == IF Falsy(data.items) THEN <<>>
                               ELSE data.items.elems
                      saved == saveItems(ls, items, t)
                  IN  IF Len(items) > 0
                      THEN [ret |-> <<>>, ls |-> saved.ls, alert |-> saved.alert]
                      ELSE Returned(<<>>, ls)

\* FurnitureData.init from the moment the seed fetch settles, with
\* response == [fetch, body]: fetch is "error" (the fetch rejects), "not-ok"
\* (response.ok is false) or "ok", and body is the text served.
initFetched(ls, response, t) ==
    IF response.fetch # "ok" THEN Returned(<<>>, ls)
    ELSE LET parsed == JSONparse(response.body)
             data == parsed.value
         IN  IF parsed.threw \/ data.t = "null" THEN Returned(<<>>, ls)
             ELSE LET items == IF Falsy(data.items) THEN <<>>
                               ELSE data.items.elems
                      saved == saveItems(ls, items, t)
                  IN  IF Len(items) > 0
                      THEN [ret |-> items, ls |-> saved.ls, alert |-> saved.alert]
                      ELSE Returned(items, ls)

-----------------------------------------------------------------------------
(* The showcase page (src/js/showcase.js) *)

\* The comparator with the 'oldest' case a copy of the 'newest' one.
CompareOldestAsNewest(method, a, b) ==
    CASE method = "price-low" -> a.price - b.price
      [] method = "price-high" -> b.price - a.price
      [] OTHER -> b.dateAdded - a.dateAdded

\* The comparator sortFurniture hands to Array.prototype.sort.
Compare(method, a, b) ==
    CASE method = "price-low" -> a.price - b.price
      [] method = "price-high" -> b.price - a.price
      [] method = "newest" -> b.dateAdded - a.dateAdded
      [] method = "oldest" -> a.dateAdded - b.dateAdded
      [] OTHER -> b.dateAdded - a.dateAdded

\* Array.prototype.sort is a stable sort: x goes before the first element it
\* is strictly less than, behind every element it compares equal to.
InsertSorted(sorted, x, method) ==
    LET before == {i \in 1..Len(sorted) : Compare(method, x, sorted[i]) < 0}
        at == IF before = {} THEN Len(sorted) + 1
              ELSE CHOOSE i \in before : \A j \in before : i <= j
    IN  SubSeq(sorted, 1, at - 1) \o <<x>> \o SubSeq(sorted, at, Len(sorted))

RECURSIVE ArraySort(_, _)
ArraySort(arr, method) ==
    IF arr = <<>> THEN <<>>
    ELSE InsertSorted(ArraySort(SubSeq(arr, 1, Len(arr) - 1), method),
                      arr[Len(arr)], method)

\* sortFurniture sorts a copy: [items, result] is the argument array after
\* the call and the array returned.
sortFurniture(items, method) ==
    [items |-> items, result |-> ArraySort(items, method)]

\* applyFiltersAndSort that filters what the page shows at the moment.
applyFiltersAndSortShown(st) ==
    LET all == st.filteredFurniture
        byStatus ==
            IF st.currentFilter # "all"
            THEN filter(all, {x \in Elems(all) : x.status = st.currentFilter})
            ELSE all
        query == toLowerCase(st.searchQuery)
        bySearch ==
            IF st.searchQuery # <<>>
            THEN filter(byStatus,
                     {x \in Elems(byStatus) :
                         \/ includes(toLowerCase(x.name), query)
                         \/ includes(toLowerCase(x.description), query)})
            ELSE byStatus
    IN  [st EXCEPT !.filteredFurniture =
                       sortFurniture(bySearch, st.currentSort).result]

applyFiltersAndSort(st) ==
    LET all == st.furniture
        byStatus ==
            IF st.currentFilter # "all"
            THEN filter(all, {x \in Elems(all) : x.status = st.currentFilter})
            ELSE all
        query == toLowerCase(st.searchQuery)
        bySearch ==
            IF st.searchQuery # <<>>
            THEN filter(byStatus,
                     {x \in Elems(byStatus) :
                         \/ includes(toLowerCase(x.name), query)
                         \/ includes(toLowerCase(x.description), query)})
            ELSE byStatus
    IN  [st EXCEPT !.filteredFurniture =
                       sortFurniture(bySearch, st.currentSort).result]

handleFilterClick(st, filterValue) ==
    applyFiltersAndSort([st EXCEPT !.currentFilter = filterValue])

handleSortChange(st, sortValue) ==
    applyFiltersAndSort([st EXCEPT !.currentSort = sortValue])

handleSearch(st, query) ==
    applyFiltersAndSort([st EXCEPT !.searchQuery = trim(query)])

\* loadFurnitureData that shows every stored item.
loadFurnitureDataAll(st, ls) ==
    LET allItems == loadItems(ls)
    IN  [st EXCEPT !.furniture = allItems, !.filteredFurniture = allItems]

\* loadFurnitureData after FurnitureData.init has settled: ls is the text
\* stored at that moment.
loadFurnitureData(st, ls) ==
    LET allItems == loadItems(ls)
        visible == filter(allItems, {x \in Elems(allItems) : x.hidden # "true"})
    IN  [st EXCEPT !.furniture = visible, !.filteredFurniture = visible]

-----------------------------------------------------------------------------
(* The lightbox (src/js/showcase.js).  state.lightbox.currentItem is <<>>  *)
(* for null and <<item>> for an item.                                      *)

\* The % operator of JavaScript: the result has the sign of the dividend.
Rem(a, b) == IF a >= 0 THEN a % b ELSE 0 - ((0 - a) % b)

\* Array.prototype.find with i => i.id === itemId: <<>> for undefined.
find(items, itemId) ==
    IF findIndex(items, itemId) = 0 THEN <<>>
    ELSE <<items[findIndex(items, itemId)]>>

ClosedLightbox == [isOpen |-> FALSE, currentItem |-> <<>>, currentImageIndex |-> 0]

openLightbox(st, itemId, imageIndex) ==
    LET item == find(st.furniture, itemId) IN
    IF item = <<>> \/ Len(item[1].images) = 0 THEN st
    ELSE [st EXCEPT !.lightbox = [isOpen |-> TRUE, currentItem |-> item,
                                  currentImageIndex |-> imageIndex]]

closeLightbox(st) == [st EXCEPT !.lightbox = ClosedLightbox]

previousImage(st) ==
    IF st.lightbox.currentItem = <<>> THEN st
    ELSE LET totalImages == Len(st.lightbox.currentItem[1].images) IN
         [st EXCEPT !.lightbox.currentImageIndex =
                        Rem(@ - 1 + totalImages, totalImages)]

\* nextImage without the wrap.
nextImageNoWrap(st) ==
    IF st.lightbox.currentItem = <<>> THEN st
    ELSE [st EXCEPT !.lightbox.currentImageIndex = @ + 1]

nextImage(st) ==
    IF st.lightbox.currentItem = <<>> THEN st
    ELSE LET totalImages == Len(st.lightbox.currentItem[1].images) IN
         [st EXCEPT !.lightbox.currentImageIndex = Rem(@ + 1, totalImages)]

-----------------------------------------------------------------------------
(* processImage (src/unnamed/part_000).  quality is an IEEE-754 double.    *)
(* With D the double nearest to 0.1 (7205759403792794 * 2^-56), the value  *)
(* [m, r] stands for the double m * D + r * 2^-56: 0.8 is 8 * D exactly,   *)
(* D is 10 modulo 16 in units of 2^-56, and 2^-1, 2^-2, 2^-3 lie at        *)
(* 5D - 2, 2.5D - 1 and 1.25D - 0.5 units, which places m * D + r (r       *)
(* small) in its binade by m alone.                                        *)

MAX_IMAGE_WIDTH == 1200
MAX_FILE_SIZE == 200 * 1024

InitialQuality == [m |-> 8, r |-> 0]

\* The value in units of 2^-56, modulo 16.
UnitsMod16(q) == (10 * q.m + q.r) % 16

\* The spacing of the doubles around q, in units of 2^-56.
Ulp(q) ==
    IF q.m >= 5 THEN 8
    ELSE IF q.m >= 3 THEN 4
    ELSE IF q.m = 2 THEN 2
    ELSE 1

\* Round to the nearest double, ties to the even significand.
RoundToDouble(q) ==
    LET u == Ulp(q)
        over == UnitsMod16(q) % u
        down == [q EXCEPT !.r = @ - over]
        up == [q EXCEPT !.r = @ + (u - over)]
    IN  IF over = 0 THEN q
        ELSE IF 2 * over < u THEN down
        ELSE IF 2 * over > u THEN up
        ELSE IF UnitsMod16(down) % (2 * u) = 0 THEN down
        ELSE up

\* quality -= 0.1
SubtractTenth(q) == RoundToDouble([q EXCEPT !.m = @ - 1])

\* quality > 0.1
AboveTenth(q) == q.m > 1 \/ (q.m = 1 /\ q.r > 0)

\* canvas.toDataURL('image/jpeg', quality).length for a picture: the JPEG
\* shrinks as the quality goes down.
toDataURL(picture, q) == picture.base + picture.perTenth * q.m

\* dataUrl.length > this.MAX_FILE_SIZE * 1.37
TooLarge(length) == length * 100 > MAX_FILE_SIZE * 137

\* img.onload up to the first toDataURL.
processImageStart(picture) ==
    LET scaled == picture.width > MAX_IMAGE_WIDTH
        width == IF scaled THEN MAX_IMAGE_WIDTH ELSE picture.width
        height == IF scaled
                  THEN (picture.height * MAX_IMAGE_WIDTH) \div picture.width
                  ELSE picture.height
    IN  [pc |-> "loop", picture |-> picture, width |-> width, height |-> height,
         quality |-> InitialQuality,
         dataUrl |-> toDataURL(picture, InitialQuality), encodings |-> 1]

\* The test of the while loop.
loopCondition(im) == TooLarge(im.dataUrl) /\ AboveTenth(im.quality)

\* One pass through the body of the while loop.
loopBody(im) ==
    [im EXCEPT !.quality = SubtractTenth(@),
               !.dataUrl = toDataURL(im.picture, SubtractTenth(im.quality)),
               !.encodings = @ + 1]

-----------------------------------------------------------------------------
(* The message box of the admin page (src/unnamed/part_000) *)

MESSAGE_MS == 3000

\* showMessage(message, type): the box takes the class of the type and is
\* displayed, and one more timer is set that hides it 3000 ms from now.  A
\* timer set earlier stays pending.  timers holds the times at which the
\* pending timers are due; shownAt is the time of the call that displayed
\* the message now in the box.
showMessage(mb, type) ==
    [mb EXCEPT !.display = "block", !.type = type, !.shownAt = mb.clock,
               !.timers = @ \cup {mb.clock + MESSAGE_MS}]

\* The callback of the timer due at `due`.
hideMessage(mb, due) ==
    [mb EXCEPT !.display = "none", !.timers = @ \ {due}]

-----------------------------------------------------------------------------
(* The images of the item form (src/unnamed/part_000).  Indexes are the     *)
(* code's, from 0; the arrays of the model are indexed from 1.              *)

\* arr.splice(start, 1) and arr.splice(start, 0, x) for 0 <= start <= length.
spliceOut(arr, start) ==
    [k \in 1..(Len(arr) - (IF start < Len(arr) THEN 1 ELSE 0)) |->
        IF k <= start THEN arr[k] ELSE arr[k + 1]]

spliceIn(arr, start, x) ==
    [k \in 1..(Len(arr) + 1) |->
        IF k <= start THEN arr[k] ELSE IF k = start + 1 THEN x ELSE arr[k - 1]]

\* moveImage on uploadedImages: [images, moved], moved telling whether the
\* early return was passed.
moveImageNoSwap(images, fromIndex, direction) ==
    LET toIndex == fromIndex + direction IN
    IF toIndex < 0 \/ toIndex >= Len(images)
    THEN [images |-> images, moved |-> FALSE]
    ELSE [images |-> [images EXCEPT ![toIndex + 1] = images[fromIndex + 1]],
          moved |-> TRUE]

moveImage(images, fromIndex, direction) ==
    LET toIndex == fromIndex + direction IN
    IF toIndex < 0 \/ toIndex >= Len(images)
    THEN [images |-> images, moved |-> FALSE]
    ELSE [images |-> [images EXCEPT ![fromIndex + 1] = images[toIndex + 1],
                                    ![toIndex + 1] = images[fromIndex + 1]],
          moved |-> TRUE]

\* The 'drop' listener of the preview at index, after a dragstart on the
\* preview at draggedIndex.
drop(images, draggedIndex, index) ==
    IF draggedIndex # index
    THEN [images |-> spliceIn(spliceOut(images, draggedIndex), index,
                              images[draggedIndex + 1]),
          moved |-> TRUE]
    ELSE [images |-> images, moved |-> FALSE]

removeImage(images, index) == spliceOut(images, index)

-----------------------------------------------------------------------------
(* The search box and its debounce timer (src/js/showcase.js) *)

DEBOUNCE_MS == 300

\* The 'input' listener that re-arms a pending timer only when none is set.
onSearchInputNoClear(s, value) ==
    [s EXCEPT !.value = value,
              !.armed = TRUE,
              !.due = IF s.armed THEN s.due ELSE s.clock + DEBOUNCE_MS,
              !.lastTime = s.clock,
              !.lastValue = value,
              !.events = IF s.armed THEN @ + 1 ELSE 1,
              !.runs = 0]

\* The 'input' listener: clearTimeout(searchTimeout), then setTimeout(...,
\* 300).  The box already holds the text typed.
onSearchInput(s, value) ==
    [s EXCEPT !.value = value,
              !.armed = TRUE,
              !.due = s.clock + DEBOUNCE_MS,
              !.lastTime = s.clock,
              !.lastValue = value,
              !.events = IF s.armed THEN @ + 1 ELSE 1,
              !.runs = 0]

\* The timer's callback: handleSearch(e.target.value), the text the box
\* holds when the timer fires.
onSearchTimeout(st, s) == handleSearch(st, s.value)

-----------------------------------------------------------------------------
(* Inputs: the files the admin can import, the seed file the server can    *)
(* serve, what the admin can type into the item form, what the visitor can *)
(* type into the search box.                                               *)

Chair == Item(<<0, 0>>, <<"A", "b">>, <<"c">>, 2, "available", <<>>,
              Undefined, 0, NoNumber, 5, "link")
Table == Item(<<0, 1>>, <<"B">>, <<"a", "b">>, 1, "sold", <<"img1">>,
              "false", 1, NoNumber, NoNumber, Undefined)
\* A hidden item that carries the Chair's id.
Shadow == Item(<<0, 0>>, <<"C">>, <<"x">>, 1, "pending", <<>>,
               "true", 1, NoNumber, NoNumber, Undefined)
Sofa == Item(<<0, 2>>, <<"C", "a">>, <<"b">>, 3, "available", <<"img1", "img2">>,
             Undefined, 2, NoNumber, NoNumber, Undefined)

\* A visible item of three images, and a visible item of one image that
\* carries its id.
Cabinet == Item(<<0, 3>>, <<"a">>, <<"c">>, 4, "available", <<"img1", "img2", "img1">>, "false", 1, NoNumber, NoNumber, Undefined)
Stool == Item(<<0, 3>>, <<"b">>, <<"c">>, 1, "available", <<"img2">>, Undefined, 0, NoNumber, NoNumber, Undefined)

FileOf(items) == JSONstringify(JObject(JArray(items), NoNumber), 2)

ValidFiles ==
    { FileOf(<<>>),
      FileOf(<<Chair, Table>>),
      FileOf(<<Chair, Shadow>>),
      FileOf(<<Sofa, Sofa, Table>>) }

MalformedFiles ==
    { Garbage,
      JSONstringify(JTop("null"), 0),
      JSONstringify(JTop("array"), 0),
      JSONstringify(JObject(JScalar("undefined"), NoNumber), 2),
      JSONstringify(JObject(JScalar("null"), NoNumber), 2),
      JSONstringify(JObject(JScalar("string"), NoNumber), 2),
      JSONstringify(JObject(JScalar("object"), NoNumber), 2) }

ImportFiles == ValidFiles \cup MalformedFiles

SeedFiles ==
    { Garbage,
      JSONstringify(JObject(JScalar("undefined"), NoNumber), 2),
      FileOf(<<>>),
      FileOf(<<Table, Chair>>),
      FileOf(<<Sofa, Sofa, Table>>) }

Responses ==
    { [fetch |-> "error", body |-> NoText], [fetch |-> "not-ok", body |-> NoText] }
    \cup { [fetch |-> "ok", body |-> b] : b \in SeedFiles }
NoResponse == [fetch |-> "none", body |-> NoText]

\* The item form: what parseFloat makes of the price field is [nan, v].
FormInput(name, description, nan, v, status) ==
    [name |-> name, description |-> description,
     price |-> [nan |-> nan, v |-> v], status |-> status]

FormInputs ==
    { FormInput(<<"A", "b">>, <<"x">>, FALSE, 2, "available"),
      FormInput(<<" ", "B", " ">>, <<"a", "b">>, FALSE, 1, "sold"),
      FormInput(<<" ">>, <<"x">>, FALSE, 1, "available"),
      FormInput(<<"A">>, <<>>, FALSE, 1, "available"),
      FormInput(<<"A">>, <<"x">>, TRUE, 0, "available"),
      FormInput(<<"A">>, <<"x">>, FALSE, -1, "available") }

Passwords == {ADMIN_PASSWORD, "guess"}

Queries == {<<>>, <<" ">>, <<" ", "C">>}

-----------------------------------------------------------------------------
(* The initial state: both pages closed to the visitor, the admin page     *)
(* loaded in a fresh session (AdminPanel.init showed the login form),      *)
(* nothing stored.                                                         *)

InitialState ==
    [furniture |-> <<>>, filteredFurniture |-> <<>>, currentFilter |-> "all",
     currentSort |-> "default", searchQuery |-> <<>>,
     lightbox |-> ClosedLightbox]

\* A recorded call: the id, file or response it was given, the boolean or
\* the items it returned, and whether saveItems raised the quota alert.
NoCall == [op |-> "none", ctx |-> "none", id |-> NoId, file |-> NoText,
           response |-> NoResponse, ret |-> FALSE, items |-> <<>>,
           alert |-> FALSE]
InitCall(ctx, response, items, alert) ==
    [NoCall EXCEPT !.op = "init", !.ctx = ctx, !.response = response,
                   !.items = items, !.alert = alert]
NoSort == [arg |-> <<>>, items |-> <<>>, method |-> "none", result |-> <<>>]
\* No image is being processed.
NoPicture == [width |-> 0, height |-> 0, base |-> 0, perTenth |-> 0]
NoImage == [pc |-> "idle", picture |-> NoPicture, width |-> 0, height |-> 0,
            quality |-> [m |-> 0, r |-> 0], dataUrl |-> 0, encodings |-> 0]
\* Nothing typed into the search box, no debounce timer pending.
\* clock: milliseconds since the page was loaded; value: the search box's
\* text; armed, due: searchTimeout is pending and when it fires; events,
\* lastTime, lastValue: the input events of the latest burst (each one
\* arrived while the timer of the one before was pending), and the time and
\* text of the last of them; runs: the runs of handleSearch since that one.
NoSearch == [clock |-> 0, value |-> <<>>, armed |-> FALSE, due |-> 0,
             lastTime |-> 0, lastValue |-> <<>>, events |-> 0, runs |-> 0]

\* The message box before any message: hidden, no timer pending.
NoMessage == [clock |-> 0, display |-> "none", type |-> "", shownAt |-> 0,
              timers |-> {}]
\* The document is loaded anew: the box is as in the page's markup and the
\* timers of the document before are gone.
reloaded(mb) == [NoMessage EXCEPT !.clock = mb.clock]

Init ==
    /\ now = 0
    /\ localStorage = NoText
    /\ sessionAuth = FALSE
    /\ adminPc = "login"
    /\ formOpen = FALSE
    /\ currentEditId = NoId
    /\ uploadedImages = <<>>
    /\ showPc = "unopened"
    /\ state = InitialState
    /\ storageEvents = 0
    /\ last = NoCall
    /\ writes = 0
    /\ sortCall = NoSort
    /\ img = NoImage
    /\ search = NoSearch
    /\ messageBox = NoMessage

Tick ==
    /\ now < MaxTime
    /\ now' = now + 1
    /\ UNCHANGED <<localStorage, adminVars, showVars, storageEvents, last, pureVars, writes>>

-----------------------------------------------------------------------------
(* The admin page (src/unnamed/part_000) *)

StoredIds == {x.id : x \in Elems(loadItems(localStorage))}

\* A write by the admin page: the stored text changes to r.ls, the call is
\* recorded, and a changed value dispatches a storage event to the showcase
\* window when that one is open.
AdminStore(r) ==
    /\ localStorage' = r.ls
    /\ writes' = IF r.ls # localStorage THEN writes + 1 ELSE writes
    /\ storageEvents' =
           IF r.ls # localStorage /\ showPc # "unopened"
           THEN storageEvents + 1 ELSE storageEvents

\* A button of the panel calls FurnitureData and reports the outcome with
\* showMessage.
AdminCall(op, id, file, r) ==
    /\ AdminStore(r)
    /\ messageBox' = showMessage(messageBox, IF r.ret THEN "success" ELSE "error")
    /\ last' = [NoCall EXCEPT !.op = op, !.ctx = "admin", !.id = id,
                              !.file = file, !.ret = r.ret, !.alert = r.alert]

CanWrite == storageEvents < MaxEvents /\ writes < MaxWrites

PanelShown == adminPc = "panel" /\ CanWrite

\* AdminPanel.init and handleLogin from `await FurnitureData.init()` on.
AdminSeed ==
    LET existing == initExisting(localStorage) IN
    IF Len(existing) > 0
    THEN /\ adminPc' = "panel"
         /\ last' = InitCall("admin", NoResponse, existing, FALSE)
    ELSE /\ adminPc' = "fetching"
         /\ UNCHANGED last

\* The admin page is loaded or reloaded: AdminPanel.init.
AdminPanelInit ==
    /\ formOpen' = FALSE
    /\ currentEditId' = NoId
    /\ uploadedImages' = <<>>
    /\ IF sessionAuth THEN AdminSeed
       ELSE adminPc' = "login" /\ UNCHANGED last
    /\ messageBox' = reloaded(messageBox)
    /\ UNCHANGED <<now, localStorage, sessionAuth, showVars, storageEvents, othersVars, writes>>

\* handleLogin that takes any password.
HandleLoginAnyPassword(password) ==
    /\ adminPc \in {"login", "loginError"}
    /\ sessionAuth' = TRUE /\ AdminSeed
    /\ UNCHANGED <<now, localStorage, formOpen, currentEditId, uploadedImages,
                   showVars, storageEvents, pureVars, writes>>

HandleLogin(password) ==
    /\ adminPc \in {"login", "loginError"}
    /\ IF password = ADMIN_PASSWORD
       THEN sessionAuth' = TRUE /\ AdminSeed
       ELSE \* errorMsg.style.display = 'block'
            adminPc' = "loginError" /\ UNCHANGED <<sessionAuth, last>>
    /\ UNCHANGED <<now, localStorage, formOpen, currentEditId, uploadedImages,
                   showVars, storageEvents, pureVars, writes>>

\* The seed fetch of the admin page's FurnitureData.init settles.
AdminFetched(response) ==
    /\ adminPc = "fetching"
    /\ CanWrite
    /\ LET r == initFetched(localStorage, response, now) IN
       /\ AdminStore(r)
       /\ last' = InitCall("admin", response, r.ret, r.alert)
    /\ adminPc' = "panel"
    /\ UNCHANGED <<now, sessionAuth, formOpen, currentEditId, uploadedImages,
                   showVars, pureVars>>

Logout ==
    /\ adminPc = "panel"
    /\ sessionAuth' = FALSE
    /\ adminPc' = "login"
    /\ formOpen' = FALSE
    /\ currentEditId' = NoId
    /\ uploadedImages' = <<>>
    /\ messageBox' = reloaded(messageBox)
    /\ UNCHANGED <<now, localStorage, showVars, storageEvents, last, othersVars, writes>>

DuplicateItem(id, rnd) ==
    /\ PanelShown /\ ~formOpen
    /\ LET item == getItemById(localStorage, id).item
           newItem == [item EXCEPT !.id = generateId(now, rnd),
                                   !.name = @ \o CopySuffix,
                                   !.dateUpdated = now]
       IN  AdminCall("duplicateItem", id, NoText, addItem(localStorage, newItem, now))
    /\ UNCHANGED <<now, adminVars, showVars, othersVars>>

ToggleHidden(id) ==
    /\ PanelShown /\ ~formOpen
    /\ LET item == getItemById(localStorage, id).item
           toggled == [item EXCEPT
                          !.hidden = IF @ = "true" THEN "false" ELSE "true"]
       IN  AdminCall("toggleHidden", id, NoText, updateItem(localStorage, id, toggled, now))
    /\ UNCHANGED <<now, adminVars, showVars, othersVars>>

QuickStatusUpdate(id, newStatus) ==
    /\ PanelShown /\ ~formOpen
    /\ LET item == getItemById(localStorage, id).item
           changed == [item EXCEPT !.status = newStatus]
       IN  AdminCall("quickStatusUpdate", id, NoText,
                     updateItem(localStorage, id, changed, now))
    /\ UNCHANGED <<now, adminVars, showVars, othersVars>>

\* The Delete button, and the answer to confirm().
DeleteItem(id, confirmed) ==
    /\ PanelShown /\ ~formOpen
    /\ IF confirmed
       THEN AdminCall("deleteItem", id, NoText, deleteItem(localStorage, id, now))
       ELSE UNCHANGED <<localStorage, last, storageEvents, writes, messageBox>>
    /\ UNCHANGED <<now, adminVars, showVars, othersVars>>

\* showItemForm with no item: the Add New Item button.
ShowItemForm ==
    /\ PanelShown /\ ~formOpen
    /\ formOpen' = TRUE
    /\ currentEditId' = NoId
    /\ uploadedImages' = <<>>
    /\ UNCHANGED <<now, localStorage, sessionAuth, adminPc, showVars,
                   storageEvents, last, pureVars, writes>>

EditItem(id) ==
    /\ PanelShown /\ ~formOpen
    /\ LET item == getItemById(localStorage, id).item IN
       /\ formOpen' = TRUE
       /\ currentEditId' = item.id
       /\ uploadedImages' = item.images
    /\ UNCHANGED <<now, localStorage, sessionAuth, adminPc, showVars,
                   storageEvents, last, pureVars, writes>>

HideItemForm ==
    /\ PanelShown /\ formOpen
    /\ formOpen' = FALSE
    /\ currentEditId' = NoId
    /\ uploadedImages' = <<>>
    /\ UNCHANGED <<now, localStorage, sessionAuth, adminPc, showVars,
                   storageEvents, last, pureVars, writes>>

\* One image file chosen in the form; processing it resolves with url.
\* 'Processing images...' is shown before and 'image(s) added' after.
HandleImageUpload(url) ==
    /\ PanelShown /\ formOpen
    /\ Len(uploadedImages) < MaxImages
    /\ uploadedImages' = Append(uploadedImages, url)
    /\ messageBox' = showMessage(showMessage(messageBox, "info"), "success")
    /\ UNCHANGED <<now, localStorage, sessionAuth, adminPc, formOpen,
                   currentEditId, showVars, storageEvents, last, othersVars, writes>>

\* validateForm without the test of the price.
validateFormNoPrice(input, images) ==
    /\ trim(input.name) # <<>>
    /\ trim(input.description) # <<>>
    /\ Len(images) # 0

validateForm(input, images) ==
    /\ trim(input.name) # <<>>
    /\ trim(input.description) # <<>>
    /\ ~(input.price.nan \/ input.price.v < 0)
    /\ Len(images) # 0

\* The Save button, with the form fields as typed and the random suffix
\* generateId would draw.
SaveItem(input, rnd) ==
    /\ PanelShown /\ formOpen
    /\ LET itemData == Item(NoId, trim(input.name), trim(input.description),
                            input.price.v, input.status, uploadedImages,
                            Undefined, NoNumber, NoNumber, NoNumber, Undefined)
           edited == getItemById(localStorage, currentEditId)
           r == IF currentEditId # NoId
                THEN updateItem(localStorage, currentEditId,
                         [itemData EXCEPT !.dateAdded = edited.item.dateAdded], now)
                ELSE addItem(localStorage,
                         [itemData EXCEPT !.id = generateId(now, rnd),
                                          !.dateAdded = now,
                                          !.dateUpdated = now], now)
       IN  IF ~validateForm(input, uploadedImages)
           THEN \* showMessage('Please ...', 'error'); return
                /\ last' = [NoCall EXCEPT !.op = "validateForm", !.ctx = "admin",
                                          !.id = currentEditId]
                /\ messageBox' = showMessage(messageBox, "error")
                /\ UNCHANGED <<localStorage, storageEvents, writes, formOpen,
                               currentEditId, uploadedImages>>
           ELSE IF currentEditId # NoId /\ ~edited.found
           THEN \* getItemById gave null: reading .dateAdded throws
                UNCHANGED <<localStorage, last, storageEvents, writes, formOpen,
                            currentEditId, uploadedImages, messageBox>>
           ELSE /\ AdminCall("saveItem", currentEditId, NoText, r)
                /\ IF r.ret
                   THEN /\ formOpen' = FALSE
                        /\ currentEditId' = NoId
                        /\ uploadedImages' = <<>>
                   ELSE UNCHANGED <<formOpen, currentEditId, uploadedImages>>
    /\ UNCHANGED <<now, sessionAuth, adminPc, showVars, othersVars>>

\* The Import button: the file chosen and the answer to confirm().
ImportData(file, confirmed) ==
    /\ PanelShown
    /\ IF confirmed
       THEN AdminCall("importData", NoId, file, importData(localStorage, file, now))
       ELSE UNCHANGED <<localStorage, last, storageEvents, writes, messageBox>>
    /\ UNCHANGED <<now, adminVars, showVars, othersVars>>

AdminNext ==
    \/ AdminPanelInit
    \/ \E password \in Passwords : HandleLogin(password)
    \/ \E response \in Responses : AdminFetched(response)
    \/ Logout
    \/ \E id \in StoredIds, rnd \in RandomSuffixes : DuplicateItem(id, rnd)
    \/ \E id \in StoredIds : ToggleHidden(id)
    \/ \E id \in StoredIds, newStatus \in Statuses : QuickStatusUpdate(id, newStatus)
    \/ \E id \in StoredIds, confirmed \in BOOLEAN : DeleteItem(id, confirmed)
    \/ ShowItemForm
    \/ \E id \in StoredIds : EditItem(id)
    \/ HideItemForm
    \/ \E url \in ImageUrls : HandleImageUpload(url)
    \/ \E input \in FormInputs, rnd \in RandomSuffixes : SaveItem(input, rnd)
    \/ \E file \in ImportFiles \cup {exportData(localStorage)},
          confirmed \in BOOLEAN : ImportData(file, confirmed)

-----------------------------------------------------------------------------
(* The showcase page's handlers *)

\* loadFurnitureData up to the point where FurnitureData.init awaits the
\* seed; with items stored, init returns them and the load runs to its end.
LoadFurnitureData(st) ==
    LET existing == initExisting(localStorage) IN
    IF Len(existing) > 0
    THEN /\ showPc' = "ready"
         /\ state' = loadFurnitureData(st, localStorage)
         /\ last' = InitCall("showcase", NoResponse, existing, FALSE)
    ELSE /\ showPc' = "fetching"
         /\ state' = st
         /\ UNCHANGED last

\* The showcase page is loaded or reloaded: init() attaches the listeners
\* and starts the first loadFurnitureData.
ShowcaseInit ==
    /\ LoadFurnitureData(InitialState)
    /\ storageEvents' = 0
    /\ UNCHANGED <<now, localStorage, adminVars, pureVars, writes>>

\* The seed fetch of the showcase page's FurnitureData.init settles and
\* loadFurnitureData runs to its end.
ShowcaseFetched(response) ==
    /\ showPc = "fetching"
    /\ writes < MaxWrites
    /\ LET r == initFetched(localStorage, response, now) IN
       /\ localStorage' = r.ls
       /\ writes' = IF r.ls # localStorage THEN writes + 1 ELSE writes
       /\ last' = InitCall("showcase", response, r.ret, r.alert)
       /\ state' = loadFurnitureData(state, r.ls)
    /\ showPc' = "ready"
    /\ UNCHANGED <<now, adminVars, storageEvents, pureVars>>

HandleFilterClick(filterValue) ==
    /\ showPc # "unopened"
    /\ state' = handleFilterClick(state, filterValue)
    /\ UNCHANGED <<now, localStorage, adminVars, showPc, storageEvents, last, pureVars, writes>>

HandleSortChange(sortValue) ==
    /\ showPc # "unopened"
    /\ state' = handleSortChange(state, sortValue)
    /\ UNCHANGED <<now, localStorage, adminVars, showPc, storageEvents, last, pureVars, writes>>

HandleSearch(query) ==
    /\ showPc # "unopened"
    /\ state' = handleSearch(state, query)
    /\ UNCHANGED <<now, localStorage, adminVars, showPc, storageEvents, last, pureVars, writes>>

\* The window's storage listener, for an event whose key is eventKey.
StorageListener(eventKey) ==
    IF eventKey = LISTENER_KEY
    THEN LoadFurnitureData(state)
    ELSE UNCHANGED <<showPc, state, last>>

\* A storage event for the admin page's write reaches the showcase window.
StorageEvent ==
    /\ storageEvents > 0
    /\ storageEvents' = storageEvents - 1
    /\ StorageListener(STORAGE_KEY)
    /\ UNCHANGED <<now, localStorage, adminVars, pureVars, writes>>

ShowcaseNext ==
    \/ ShowcaseInit
    \/ \E response \in Responses : ShowcaseFetched(response)
    \/ \E filterValue \in Filters : HandleFilterClick(filterValue)
    \/ \E sortValue \in SortMethods : HandleSortChange(sortValue)
    \/ \E query \in Queries : HandleSearch(query)
    \/ StorageEvent

-----------------------------------------------------------------------------
(* Specifications *)

\* The admin page working on the stored collection; the showcase page is
\* not open.
Next == Tick \/ AdminNext

Spec == Init /\ [][Next]_vars

\* The showcase page, with the admin page open in another tab: the admin
\* logs in and replaces or edits the stored collection while the visitor
\* browses.
AdminTab ==
    \/ \E password \in Passwords : HandleLogin(password)
    \/ \E response \in Responses : AdminFetched(response)
    \/ \E id \in StoredIds : ToggleHidden(id)
    \/ \E file \in ValidFiles : ImportData(file, TRUE)

ShowcasePageNext == Tick \/ AdminTab \/ ShowcaseNext

ShowcaseSpec == Init /\ [][ShowcasePageNext]_vars

\* sortFurniture on its own: the argument is any array of catalogue items,
\* the method any value of the sort select.
SortItems == {Chair, Table, Shadow, Sofa}
SortInputs == UNION {[1..n -> SortItems] : n \in 0..MaxSortLen}

SortInit ==
    /\ now = 0
    /\ localStorage = NoText
    /\ sessionAuth = FALSE
    /\ adminPc = "login"
    /\ formOpen = FALSE
    /\ currentEditId = NoId
    /\ uploadedImages = <<>>
    /\ showPc = "unopened"
    /\ state = InitialState
    /\ storageEvents = 0
    /\ last = NoCall
    /\ writes = 0
    /\ \E items \in SortInputs :
           sortCall = [arg |-> items, items |-> items, method |-> "none",
                       result |-> <<>>]
    /\ img = NoImage
    /\ search = NoSearch
    /\ messageBox = NoMessage

SortFurniture(method) ==
    /\ sortCall.method = "none"
    /\ LET r == sortFurniture(sortCall.items, method) IN
       sortCall' = [sortCall EXCEPT !.items = r.items, !.method = method,
                                    !.result = r.result]
    /\ UNCHANGED <<now, localStorage, adminVars, showVars, storageEvents, last, writes,
                   img, search, messageBox>>

SortNext == \E method \in SortMethods : SortFurniture(method)

SortSpec == SortInit /\ [][SortNext]_vars

-----------------------------------------------------------------------------
(* The lightbox on a loaded showcase page.  The page keeps the items it     *)
(* loaded whatever happens to the store afterwards, so the store is left    *)
(* out: the state is the page's.                                            *)

\* Everything but the showcase page is as in Init.
OthersIdle ==
    /\ now = 0
    /\ localStorage = NoText
    /\ sessionAuth = FALSE
    /\ adminPc = "login"
    /\ formOpen = FALSE
    /\ currentEditId = NoId
    /\ uploadedImages = <<>>
    /\ storageEvents = 0
    /\ last = NoCall
    /\ writes = 0
    /\ sortCall = NoSort
    /\ img = NoImage

LightboxItems == {Chair, Table, Sofa, Cabinet, Stool}
LoadedLists == UNION {[1..n -> LightboxItems] : n \in 1..MaxCards}

LightboxInit ==
    /\ OthersIdle
    /\ search = NoSearch
    /\ messageBox = NoMessage
    /\ showPc = "ready"
    /\ \E items \in LoadedLists :
           state = [InitialState EXCEPT !.furniture = items,
                                        !.filteredFurniture = items]

\* A click on image imageIndex of the card rendered for filteredFurniture[card]
\* (createFurnitureCard writes the item's id and the image's index into the
\* onclick attribute).
OpenLightbox(card, imageIndex) ==
    /\ showPc = "ready"
    /\ card \in 1..Len(state.filteredFurniture)
    /\ imageIndex \in 0..(Len(state.filteredFurniture[card].images) - 1)
    /\ state' = openLightbox(state, state.filteredFurniture[card].id, imageIndex)
    /\ UNCHANGED <<now, localStorage, adminVars, showPc, storageEvents, last, writes, pureVars>>

\* The close button, the overlay, or Escape.
CloseLightbox ==
    /\ state.lightbox.isOpen
    /\ state' = closeLightbox(state)
    /\ UNCHANGED <<now, localStorage, adminVars, showPc, storageEvents, last, writes, pureVars>>

\* The previous button or ArrowLeft.
PreviousImage ==
    /\ state.lightbox.isOpen
    /\ state' = previousImage(state)
    /\ UNCHANGED <<now, localStorage, adminVars, showPc, storageEvents, last, writes, pureVars>>

\* The next button or ArrowRight.
NextImage ==
    /\ state.lightbox.isOpen
    /\ state' = nextImage(state)
    /\ UNCHANGED <<now, localStorage, adminVars, showPc, storageEvents, last, writes, pureVars>>

LightboxNext ==
    \/ \E card \in 1..MaxCards, imageIndex \in 0..2 : OpenLightbox(card, imageIndex)
    \/ CloseLightbox
    \/ PreviousImage
    \/ NextImage

LightboxSpec == LightboxInit /\ [][LightboxNext]_vars

-----------------------------------------------------------------------------
(* processImage on one uploaded file *)

\* [base, perTenth]: the length of the data URL is base + perTenth * (ten
\* times the quality).  The first fits at once, the second after two
\* re-encodings, the third only below quality 0.1, the fourth never, the
\* fifth is one character too long at 0.8.
Encodings == {<<50000, 10000>>, <<100000, 30000>>, <<270000, 20000>>,
              <<300000, 50000>>, <<1, 35072>>}
Pictures ==
    {[width |-> w, height |-> h, base |-> e[1], perTenth |-> e[2]] :
        w \in {800, 1200, 2400}, h \in {600, 1800}, e \in Encodings}

ImageInit ==
    /\ OthersIdle
    /\ showPc = "unopened"
    /\ state = InitialState
    /\ search = NoSearch
    /\ messageBox = NoMessage

\* reader.onload and img.onload have run for the file.
ImageLoaded(picture) ==
    /\ img.pc = "idle"
    /\ img' = processImageStart(picture)
    /\ UNCHANGED <<now, localStorage, adminVars, showVars, storageEvents, last, writes,
                   sortCall, search, messageBox>>

\* reader.onerror or img.onerror: the promise is rejected.
ImageError ==
    /\ img.pc = "idle"
    /\ img' = [img EXCEPT !.pc = "rejected"]
    /\ UNCHANGED <<now, localStorage, adminVars, showVars, storageEvents, last, writes,
                   sortCall, search, messageBox>>

LoopStep ==
    /\ img.pc = "loop"
    /\ loopCondition(img)
    /\ img' = loopBody(img)
    /\ UNCHANGED <<now, localStorage, adminVars, showVars, storageEvents, last, writes,
                   sortCall, search, messageBox>>

\* resolve(dataUrl)
Resolve ==
    /\ img.pc = "loop"
    /\ ~loopCondition(img)
    /\ img' = [img EXCEPT !.pc = "resolved"]
    /\ UNCHANGED <<now, localStorage, adminVars, showVars, storageEvents, last, writes,
                   sortCall, search, messageBox>>

ImageNext ==
    \/ \E picture \in Pictures : ImageLoaded(picture)
    \/ ImageError
    \/ LoopStep
    \/ Resolve

ImageSpec == ImageInit /\ [][ImageNext]_vars

-----------------------------------------------------------------------------
(* FurnitureData.updateItem and deleteItem called on a store, with ids that *)
(* are stored and ids that are not.                                         *)

StoredLists == UNION {[1..n -> {Chair, Table, Shadow, Sofa}] : n \in 0..MaxStored}
\* The stored texts of the collections that fit the quota.
StoredTexts == {saveItems(NoText, items, 0).ls : items \in StoredLists}

\* The ids of the items above, and one that none of them has.
CallIds == {<<0, 0>>, <<0, 1>>, <<0, 2>>, <<1, 1>>}
\* An item with another id, an item object with no id, and a large one.
Updates ==
    {Table, [Chair EXCEPT !.id = NoId, !.status = "sold"], [Sofa EXCEPT !.id = NoId]}

DataInit ==
    /\ localStorage \in StoredTexts
    /\ now = 0
    /\ sessionAuth = FALSE
    /\ adminPc = "login"
    /\ formOpen = FALSE
    /\ currentEditId = NoId
    /\ uploadedImages = <<>>
    /\ showPc = "unopened"
    /\ state = InitialState
    /\ storageEvents = 0
    /\ last = NoCall
    /\ writes = 0
    /\ sortCall = NoSort
    /\ img = NoImage
    /\ search = NoSearch
    /\ messageBox = NoMessage

\* The record of a call of a FurnitureData operation that gave r.
DataCall(op, id, r) ==
    [NoCall EXCEPT !.op = op, !.ctx = "data", !.id = id, !.ret = r.ret,
                   !.alert = r.alert]

CallUpdateItem(id, updatedItem) ==
    LET r == updateItem(localStorage, id, updatedItem, now) IN
    /\ localStorage' = r.ls
    /\ last' = DataCall("updateItem", id, r)
    /\ UNCHANGED <<now, adminVars, showVars, storageEvents, writes, pureVars>>

CallDeleteItem(id) ==
    LET r == deleteItem(localStorage, id, now) IN
    /\ localStorage' = r.ls
    /\ last' = DataCall("deleteItem", id, r)
    /\ UNCHANGED <<now, adminVars, showVars, storageEvents, writes, pureVars>>

DataNext ==
    \/ Tick
    \/ \E id \in CallIds, updatedItem \in Updates : CallUpdateItem(id, updatedItem)
    \/ \E id \in CallIds : CallDeleteItem(id)

DataSpec == DataInit /\ [][DataNext]_vars

-----------------------------------------------------------------------------
(* The search box of a loaded showcase page.  Time passes between events;   *)
(* a timer that is due fires before more time passes and before the next    *)
(* input event is handled.                                                  *)

\* What the visitor types, and the pauses between keystrokes.
Typed == {<<>>, <<"C">>, <<"C", "a">>, <<"C", "a", " ">>}
Pauses == {100, 200, 300}

SearchInit ==
    /\ OthersIdle
    /\ search = NoSearch
    /\ messageBox = NoMessage
    /\ showPc = "ready"
    /\ state = [InitialState EXCEPT !.furniture = <<Table, Sofa, Cabinet>>,
                                    !.filteredFurniture = <<Table, Sofa, Cabinet>>]

Advance(pause) ==
    /\ search.clock + pause <= MaxClock
    /\ ~(search.armed /\ search.clock >= search.due)
    /\ search' = [search EXCEPT !.clock =
                     IF search.armed /\ @ + pause > search.due
                     THEN search.due ELSE @ + pause]
    /\ UNCHANGED <<now, localStorage, adminVars, showVars, storageEvents, last, writes,
                   sortCall, img, messageBox>>

\* An 'input' event of the search box.
SearchInput(value) ==
    /\ showPc = "ready"
    /\ search.armed => (search.events < MaxBurst /\ search.clock < search.due)
    /\ value # search.value
    /\ search' = onSearchInput(search, value)
    /\ UNCHANGED <<now, localStorage, adminVars, showVars, storageEvents, last, writes,
                   sortCall, img, messageBox>>

\* searchTimeout fires.
SearchTimeout ==
    /\ search.armed
    /\ search.clock >= search.due
    /\ state' = onSearchTimeout(state, search)
    /\ search' = [search EXCEPT !.armed = FALSE, !.runs = @ + 1]
    /\ UNCHANGED <<now, localStorage, adminVars, showPc, storageEvents, last, writes,
                   sortCall, img, messageBox>>

SearchNext ==
    \/ \E pause \in Pauses : Advance(pause)
    \/ \E value \in Typed : SearchInput(value)
    \/ SearchTimeout

SearchSpec == SearchInit /\ [][SearchNext]_vars

-----------------------------------------------------------------------------
(* The item form of the admin panel with images uploaded: the admin         *)
(* reorders and removes them and saves, while the clock of the message box  *)
(* runs.  A hide timer that is due fires before more time passes.           *)

\* The images uploaded into the form, the stores the panel works on, and the
\* pauses between the admin's clicks.
FormImages == {"img1", "img2", "img3"}
FormLists == UNION {[1..n -> FormImages] : n \in 0..MaxFormImages}
FormStores == {saveItems(NoText, items, 0).ls : items \in {<<>>, <<Table>>}}
MessagePauses == {1000, 2000}

FormInit ==
    /\ now = 0
    /\ localStorage \in FormStores
    /\ sessionAuth = TRUE
    /\ adminPc = "panel"
    /\ formOpen = TRUE
    /\ currentEditId \in {NoId} \cup {x.id : x \in Elems(loadItems(localStorage))}
    /\ uploadedImages \in FormLists
    /\ showPc = "unopened"
    /\ state = InitialState
    /\ storageEvents = 0
    /\ last = NoCall
    /\ writes = 0
    /\ sortCall = NoSort
    /\ img = NoImage
    /\ search = NoSearch
    /\ messageBox = NoMessage

\* A click on the arrow button of the preview at fromIndex.
MoveImage(fromIndex, direction) ==
    /\ PanelShown /\ formOpen
    /\ fromIndex < Len(uploadedImages)
    /\ LET r == moveImage(uploadedImages, fromIndex, direction) IN
       /\ uploadedImages' = r.images
       /\ messageBox' = IF r.moved THEN showMessage(messageBox, "info")
                        ELSE messageBox
    /\ UNCHANGED <<now, localStorage, sessionAuth, adminPc, formOpen,
                   currentEditId, showVars, storageEvents, last, othersVars, writes>>

\* The preview at draggedIndex is dragged and dropped on the one at index.
DropImage(draggedIndex, index) ==
    /\ PanelShown /\ formOpen
    /\ draggedIndex < Len(uploadedImages) /\ index < Len(uploadedImages)
    /\ LET r == drop(uploadedImages, draggedIndex, index) IN
       /\ uploadedImages' = r.images
       /\ messageBox' = IF r.moved THEN showMessage(messageBox, "info")
                        ELSE messageBox
    /\ UNCHANGED <<now, localStorage, sessionAuth, adminPc, formOpen,
                   currentEditId, showVars, storageEvents, last, othersVars, writes>>

\* A click on the remove button of the preview at index.
RemoveImage(index) ==
    /\ PanelShown /\ formOpen
    /\ index < Len(uploadedImages)
    /\ uploadedImages' = removeImage(uploadedImages, index)
    /\ messageBox' = showMessage(messageBox, "info")
    /\ UNCHANGED <<now, localStorage, sessionAuth, adminPc, formOpen,
                   currentEditId, showVars, storageEvents, last, othersVars, writes>>

\* Time passes, up to the moment the next hide timer is due.
Elapse(pause) ==
    /\ messageBox.clock + pause <= MaxMessageClock
    /\ \A due \in messageBox.timers : messageBox.clock + pause <= due
    /\ messageBox' = [messageBox EXCEPT !.clock = @ + pause]
    /\ UNCHANGED <<now, localStorage, adminVars, showVars, storageEvents, last,
                   writes, othersVars>>

\* A hide timer of showMessage fires.
MessageTimeout ==
    /\ \E due \in messageBox.timers :
           /\ due <= messageBox.clock
           /\ messageBox' = hideMessage(messageBox, due)
    /\ UNCHANGED <<now, localStorage, adminVars, showVars, storageEvents, last,
                   writes, othersVars>>

FormNext ==
    \/ \E fromIndex \in 0..(MaxFormImages - 1), direction \in {-1, 1} :
           MoveImage(fromIndex, direction)
    \/ \E draggedIndex \in 0..(MaxFormImages - 1), index \in 0..(MaxFormImages - 1) :
           DropImage(draggedIndex, index)
    \/ \E index \in 0..(MaxFormImages - 1) : RemoveImage(index)
    \/ \E input \in FormInputs, rnd \in RandomSuffixes : SaveItem(input, rnd)
    \/ \E pause \in MessagePauses : Elapse(pause)
    \/ MessageTimeout

FormSpec == FormInit /\ [][FormNext]_vars

-----------------------------------------------------------------------------
(* Properties *)

StoredItems == loadItems(localStorage)

\* C1: after any sequence of admin operations no two items of the stored
\* items array have the same id.
C1_IdsUnique ==
    \A i, j \in 1..Len(StoredItems) :
        i # j => StoredItems[i].id # StoredItems[j].id

\* C2: importData on the string exportData returns succeeds (returns true)
\* and leaves the stored items array as it was, element for element and in
\* the same order.
C2_ExportImportRoundTrip ==
    [][(last'.op = "importData" /\ last'.file = exportData(localStorage))
          => (/\ last'.ret = TRUE
              /\ loadItems(localStorage') = loadItems(localStorage))]_vars

\* A round trip has happened: the last call imported the export of a
\* collection that holds an item made in the item form (no file on disk
\* has one), and the collection is still stored.
C2_Witness ==
    /\ last.op = "importData"
    /\ last.ret = TRUE
    /\ last.file = exportData(localStorage)
    /\ \E i \in 1..Len(StoredItems) : StoredItems[i].images = <<"img2">>

\* A text that is not valid JSON, or whose parsed value has no top-level
\* items array.
Malformed(text) ==
    \/ text.kind # "json"
    \/ text.value.t # "object"
    \/ text.value.items.t # "array"

\* C3: importData of a string that is not valid JSON, or that has no
\* top-level items array, returns false and leaves the stored collection
\* exactly as it was.
C3_MalformedImportRejected ==
    [][(last'.op = "importData" /\ Malformed(last'.file))
          => (last'.ret = FALSE /\ localStorage' = localStorage)]_vars

\* A malformed file that is well-formed JSON was imported over a stored
\* collection, which is still there.
C3_Witness ==
    /\ last.op = "importData"
    /\ Malformed(last.file)
    /\ last.file.kind = "json"
    /\ last.ret = FALSE
    /\ Len(StoredItems) > 0

WriteOps == {"saveItem", "duplicateItem", "toggleHidden", "quickStatusUpdate",
             "deleteItem", "importData"}

\* C4: when the storage write fails (the quota alert is raised), the
\* operation that called saveItems returns false and the stored text is
\* what it was before.
C4_FailedWriteChangesNothing ==
    [][(last'.op \in WriteOps /\ last'.alert)
          => (last'.ret = FALSE /\ localStorage' = localStorage)]_vars

\* An edit through the form (updateItem) failed on the quota and the stored
\* collection is still there.
C4_Witness ==
    /\ last.op = "saveItem"
    /\ last.id # NoId
    /\ last.alert
    /\ last.ret = FALSE
    /\ Len(StoredItems) > 0

\* C5: neither state.furniture nor state.filteredFurniture holds an item
\* whose hidden flag is true.
C5_HiddenNeverShown ==
    /\ \A i \in 1..Len(state.furniture) : state.furniture[i].hidden # "true"
    /\ \A i \in 1..Len(state.filteredFurniture) :
           state.filteredFurniture[i].hidden # "true"

\* The store was written once and then loaded, it holds a hidden item, and
\* the visitor has filtered the items shown.
C5_Witness ==
    /\ showPc = "ready"
    /\ writes = 1
    /\ \E i \in 1..Len(StoredItems) : StoredItems[i].hidden = "true"
    /\ state.furniture # <<>>
    /\ state.currentFilter # "all"
    /\ state.filteredFurniture # <<>>

VisibleItems(items) == filter(items, {x \in Elems(items) : x.hidden # "true"})

\* C6: once the storage event of an admin save has been handled by the
\* showcase window and no load is in progress, state.furniture is the
\* non-hidden items of the stored collection.
C6_AdminSync ==
    (showPc = "ready" /\ storageEvents = 0)
        => state.furniture = VisibleItems(StoredItems)

\* The claim's words for a response that carries a non-empty items array.
SeedItems(response) ==
    IF /\ response.fetch = "ok"
       /\ response.body.kind = "json"
       /\ response.body.value.t = "object"
       /\ response.body.value.items.t = "array"
    THEN response.body.value.items.elems
    ELSE <<>>

\* C7 as claimed: with items stored, init returns them and leaves storage
\* unchanged; with nothing stored and a fetched seed of at least one item,
\* storage afterwards holds exactly the seed items; with a failed fetch or
\* an empty seed, init returns an empty list and leaves storage alone.
C7_SeedAlwaysStored ==
    [][last'.op = "init" =>
          IF last'.response = NoResponse
          THEN /\ Len(loadItems(localStorage)) > 0
               /\ last'.items = loadItems(localStorage)
               /\ localStorage' = localStorage
          ELSE IF SeedItems(last'.response) # <<>>
          THEN /\ last'.items = SeedItems(last'.response)
               /\ loadItems(localStorage') = SeedItems(last'.response)
          ELSE /\ last'.items = <<>>
               /\ localStorage' = localStorage]_vars

\* C7 (amended): as C7, but a fetched seed is stored only when the write
\* succeeds; when it fails on the quota, init still returns the seed items
\* and storage is left as it was.
C7_InitSeedsOnlyWhenEmpty ==
    [][last'.op = "init" =>
          IF last'.response = NoResponse
          THEN /\ Len(loadItems(localStorage)) > 0
               /\ last'.items = loadItems(localStorage)
               /\ localStorage' = localStorage
          ELSE IF SeedItems(last'.response) # <<>>
          THEN /\ last'.items = SeedItems(last'.response)
               /\ IF last'.alert
                  THEN localStorage' = localStorage
                  ELSE loadItems(localStorage') = SeedItems(last'.response)
          ELSE /\ last'.items = <<>>
               /\ localStorage' = localStorage]_vars

\* init fetched a seed, stored it and returned it.
C7_Witness ==
    /\ last.op = "init"
    /\ last.response # NoResponse
    /\ last.items # <<>>
    /\ ~last.alert
    /\ StoredItems = last.items

\* The items of state.furniture the current filter and query select.
Selected(st) ==
    {x \in Elems(st.furniture) :
        /\ st.currentFilter = "all" \/ x.status = st.currentFilter
        /\ \/ st.searchQuery = <<>>
           \/ includes(toLowerCase(x.name), toLowerCase(st.searchQuery))
           \/ includes(toLowerCase(x.description), toLowerCase(st.searchQuery))}

\* C8: state.filteredFurniture holds exactly the items of state.furniture
\* whose status is the current filter (all of them for 'all') and whose name
\* or description contains the search query, case-insensitively.
C8_FilteredMatchesFilterAndQuery ==
    /\ Elems(state.filteredFurniture) = Selected(state)
    /\ Len(state.filteredFurniture) = Len(filter(state.furniture, Selected(state)))

IndexPerms(n) ==
    {p \in [1..n -> 1..n] : \A i, j \in 1..n : p[i] = p[j] => i = j}

\* The key the method orders by, and the order the claim states for it.
SortKey(method, x) ==
    IF method \in {"price-low", "price-high"} THEN x.price ELSE x.dateAdded

InOrder(method, x, y) ==
    IF method \in {"price-low", "oldest"}
    THEN SortKey(method, x) <= SortKey(method, y)
    ELSE SortKey(method, x) >= SortKey(method, y)

\* C9: sortFurniture returns a permutation of its input, ordered by the
\* method chosen, with items of equal key in their input order, and leaves
\* the input array as it was.
C9_SortFurniture ==
    sortCall.method # "none" =>
        LET input == sortCall.arg
            out == sortCall.result
            m == sortCall.method
            n == Len(input)
        IN  /\ Len(out) = n
            /\ \E p \in IndexPerms(n) :
                   /\ \A i \in 1..n : out[i] = input[p[i]]
                   /\ \A i, j \in 1..n :
                          (i < j /\ SortKey(m, out[i]) = SortKey(m, out[j]))
                              => p[i] < p[j]
            /\ \A i \in 1..(n - 1) : InOrder(m, out[i], out[i + 1])
            /\ sortCall.items = input

\* A sort by price moved items and met two different items of one price.
C9_Witness ==
    /\ sortCall.method = "price-low"
    /\ sortCall.result # sortCall.arg
    /\ Len(sortCall.result) = 3
    /\ \E i \in 1..2 :
           /\ sortCall.result[i] # sortCall.result[i + 1]
           /\ sortCall.result[i].price = sortCall.result[i + 1].price

\* C10: whenever state.currentSort is 'default', state.filteredFurniture is
\* ordered by dateAdded, newest first.
C10_DefaultOrderNewestFirst ==
    state.currentSort = "default" =>
        \A i \in 1..(Len(state.filteredFurniture) - 1) :
            state.filteredFurniture[i].dateAdded
                >= state.filteredFurniture[i + 1].dateAdded


\* The lightbox shows an item and its index is one of the item's images.
LightboxInRange(st) ==
    /\ st.lightbox.currentItem # <<>>
    /\ 0 <= st.lightbox.currentImageIndex
    /\ st.lightbox.currentImageIndex < Len(st.lightbox.currentItem[1].images)

\* C11: the lightbox opened at a valid index of an item with images has its
\* index in range; from an index in range nextImage and previousImage stay
\* in range, nextImage at the last image gives 0, previousImage at 0 gives
\* the last image, and previousImage after nextImage gives the index back.
C11_LightboxWraps ==
    /\ [](LightboxInRange(state)
            => previousImage(nextImage(state)).lightbox = state.lightbox)
    /\ [][/\ \A card \in 1..MaxCards, imageIndex \in 0..2 :
                 (/\ OpenLightbox(card, imageIndex)
                  /\ state'.lightbox # state.lightbox
                  /\ imageIndex < Len(state'.lightbox.currentItem[1].images))
                     => (/\ LightboxInRange(state')
                         /\ state'.lightbox.currentImageIndex = imageIndex)
          /\ (NextImage /\ LightboxInRange(state))
                 => LET n == Len(state.lightbox.currentItem[1].images)
                        i == state.lightbox.currentImageIndex
                    IN  /\ LightboxInRange(state')
                        /\ state'.lightbox.currentImageIndex =
                               (IF i = n - 1 THEN 0 ELSE i + 1)
          /\ (PreviousImage /\ LightboxInRange(state))
                 => LET n == Len(state.lightbox.currentItem[1].images)
                        i == state.lightbox.currentImageIndex
                    IN  /\ LightboxInRange(state')
                        /\ state'.lightbox.currentImageIndex =
                               (IF i = 0 THEN n - 1 ELSE i - 1)]_vars

\* The lightbox shows the last of an item's three images.
C11_Witness ==
    /\ state.lightbox.isOpen
    /\ LightboxInRange(state)
    /\ Len(state.lightbox.currentItem[1].images) = 3
    /\ state.lightbox.currentImageIndex = 2


\* C12: the quality of the compression loop goes down from 0.8 by 0.1 each
\* time and stops at the floor of 0.1: it is never below 0.1, and the loop
\* ends with the image within the budget or the quality at 0.1.
C12_QualityStopsAtFloor ==
    /\ (img.pc \in {"loop", "resolved"})
           => (img.quality.m >= 1 /\ (img.quality.m = 1 => img.quality.r >= 0))
    /\ (img.pc = "resolved")
           => (~TooLarge(img.dataUrl) \/ img.quality = [m |-> 1, r |-> 0])

\* C13: an image processImage resolves with is at most MAX_IMAGE_WIDTH wide
\* and its data URL is at most MAX_FILE_SIZE * 1.37 characters long.
C13_ResolvedWithinBudget ==
    (img.pc = "resolved")
        => (img.width <= MAX_IMAGE_WIDTH /\ ~TooLarge(img.dataUrl))


\* The form as the claim reads it: a blank name or description, a price
\* that is no number or is negative, or no image.
FormInvalid(input, images) ==
    \/ trim(input.name) = <<>>
    \/ trim(input.description) = <<>>
    \/ input.price.nan
    \/ input.price.v < 0
    \/ Len(images) = 0

\* Where the item saved through the form is stored: in the place of the item
\* edited, or at the end.
SavedIndex ==
    IF currentEditId # NoId THEN findIndex(StoredItems, currentEditId)
    ELSE Len(StoredItems) + 1

\* C14: saveItem on an invalid form leaves the stored text as it was and the
\* form open; an item saved through the form has a price of at least 0 and
\* at least one image.
C14_InvalidFormWritesNothing ==
    [][(formOpen /\ last' # last /\ last'.op \in {"saveItem", "validateForm"}) =>
       \A input \in FormInputs, rnd \in RandomSuffixes :
           SaveItem(input, rnd) =>
               IF FormInvalid(input, uploadedImages)
               THEN localStorage' = localStorage /\ formOpen'
               ELSE (last'.op = "saveItem" /\ last'.ret) =>
                        LET saved == loadItems(localStorage')[SavedIndex] IN
                        /\ saved.price >= 0
                        /\ Len(saved.images) >= 1]_vars

\* An invalid form was turned down while items were stored, and stays open.
C14_Witness ==
    /\ last.op = "validateForm"
    /\ formOpen
    /\ Len(StoredItems) > 0


\* C15: a successful save of the form opened by editItem leaves the
\* collection as long as it was, every other item as it was, and the edited
\* item in its place with its id, dateAdded, hidden, retailPrice and
\* productLink as before.
C15_EditInPlace ==
    [][(/\ formOpen
        /\ currentEditId # NoId
        /\ last'.op = "saveItem"
        /\ last'.ret
        /\ localStorage' # localStorage) =>
          LET before == StoredItems
              after == loadItems(localStorage')
              i == findIndex(before, currentEditId)
          IN  /\ Len(after) = Len(before)
              /\ \A j \in 1..Len(before) : j # i => after[j] = before[j]
              /\ after[i].id = before[i].id
              /\ after[i].dateAdded = before[i].dateAdded
              /\ after[i].hidden = before[i].hidden
              /\ after[i].retailPrice = before[i].retailPrice
              /\ after[i].productLink = before[i].productLink]_vars


\* C16: whenever the admin section is displayed the session's auth flag is
\* set, and handleLogin with a password other than the admin password
\* neither sets the flag nor shows the admin section.
C16_AdminOnlyWhenAuthenticated ==
    /\ [](adminPc = "panel" => sessionAuth)
    /\ [][\A password \in Passwords :
              (HandleLogin(password) /\ password # ADMIN_PASSWORD)
                  => (sessionAuth' = sessionAuth /\ adminPc' = "loginError")]_vars

\* After a session that stored items and logged out, a wrong password was
\* turned down.
C16_Witness ==
    /\ adminPc = "loginError"
    /\ ~sessionAuth
    /\ Len(StoredItems) > 0


\* What updateItem(id, updatedItem) leaves of the collection `before` in
\* `after`: the same length, every item but the first of the id as it was,
\* and in that place updatedItem with the id of the call.
Replaced(before, after, id, updatedItem) ==
    LET i == findIndex(before, id) IN
    /\ Len(after) = Len(before)
    /\ \A j \in 1..Len(before) : j # i => after[j] = before[j]
    /\ after[i].id = id
    /\ [after[i] EXCEPT !.id = NoId, !.dateUpdated = NoNumber]
           = [updatedItem EXCEPT !.id = NoId, !.dateUpdated = NoNumber]

\* C17 as claimed: updateItem on an id that is stored returns true, and
\* replaces only the first item of that id, with the id of the call.
C17_UpdateAlwaysSucceeds ==
    [][last'.op = "updateItem" =>
       \A id \in CallIds, updatedItem \in Updates :
           (CallUpdateItem(id, updatedItem) /\ findIndex(StoredItems, id) # 0)
               => /\ last'.ret = TRUE
                  /\ Replaced(StoredItems, loadItems(localStorage'), id, updatedItem)]_vars

\* C17 (amended): updateItem on an id that is stored returns true and
\* replaces only the first item of that id, with the id of the call, unless
\* the write fails on the quota: then it returns false and the stored text
\* is as it was.
C17_UpdateReplacesFirst ==
    [][last'.op = "updateItem" =>
       \A id \in CallIds, updatedItem \in Updates :
           (CallUpdateItem(id, updatedItem) /\ findIndex(StoredItems, id) # 0)
               => IF last'.alert
                  THEN last'.ret = FALSE /\ localStorage' = localStorage
                  ELSE /\ last'.ret = TRUE
                       /\ Replaced(StoredItems, loadItems(localStorage'), id,
                                   updatedItem)]_vars

\* updateItem replaced the first of two items that share an id by an item
\* object that carried another id.
C17_Witness ==
    /\ last.op = "updateItem"
    /\ last.ret
    /\ last.id = <<0, 0>>
    /\ Len(StoredItems) = 2
    /\ StoredItems[1].name = Table.name
    /\ StoredItems[1].id = <<0, 0>>
    /\ StoredItems[2] = Shadow

\* C18: updateItem and deleteItem called with an id that is not stored
\* return false and leave the stored text, items and lastUpdated stamp, as
\* it was.
C18_AbsentIdChangesNothing ==
    [][last'.op \in {"updateItem", "deleteItem"} =>
       /\ \A id \in CallIds, updatedItem \in Updates :
              (CallUpdateItem(id, updatedItem) /\ findIndex(StoredItems, id) = 0)
                  => (last'.ret = FALSE /\ localStorage' = localStorage)
       /\ \A id \in CallIds :
              (CallDeleteItem(id) /\ findIndex(StoredItems, id) = 0)
                  => (last'.ret = FALSE /\ localStorage' = localStorage)]_vars

\* deleteItem was called with an id that is not stored, later than the
\* store was written.
C18_Witness ==
    /\ last.op = "deleteItem"
    /\ ~last.ret
    /\ findIndex(StoredItems, last.id) = 0
    /\ Len(StoredItems) > 0
    /\ now > 0

\* C19: deleteItem on an id that is stored returns true; afterwards
\* getItemById gives null for the id, and the collection is the one before
\* without the items of that id, the others as they were and in their order.
C19_DeleteRemovesAll ==
    [][last'.op = "deleteItem" =>
       \A id \in CallIds :
           (CallDeleteItem(id) /\ findIndex(StoredItems, id) # 0)
               => /\ last'.ret = TRUE
                  /\ ~getItemById(localStorage', id).found
                  /\ loadItems(localStorage')
                         = filter(StoredItems, {x \in Elems(StoredItems) : x.id # id})]_vars

\* deleteItem removed an id from a store that held an item of another id,
\* which is all that is left.
C19_Witness ==
    /\ last.op = "deleteItem"
    /\ last.ret
    /\ last.id = <<0, 0>>
    /\ StoredItems = <<Table>>


\* C20: handleSearch runs once for a burst of input events, 300 ms after
\* the last of them and with its text: state.searchQuery changes only then
\* and only to that text, a pending timer is due 300 ms after the last
\* event, and no time passes beyond that without the run.
C20_SearchDebounced ==
    /\ [](/\ search.runs <= 1
          /\ search.armed => (/\ search.runs = 0
                              /\ search.due = search.lastTime + 300
                              /\ search.clock <= search.due)
          /\ (~search.armed /\ search.runs = 1)
                 => state.searchQuery = trim(search.lastValue))
    /\ [][(state'.searchQuery # state.searchQuery \/ search'.runs > search.runs)
             => (/\ search.clock = search.lastTime + 300
                 /\ search.events >= 1
                 /\ search'.runs = 1
                 /\ state'.searchQuery = trim(search.lastValue))]_vars

\* A burst of three input events has ended in one run of handleSearch,
\* which applied the third text.
C20_Witness ==
    /\ search.runs = 1
    /\ search.events = 3
    /\ ~search.armed
    /\ search.lastValue = <<"C", "a", " ">>
    /\ search.lastTime = 300
    /\ search.clock = 600
    /\ state.searchQuery = <<"C", "a">>
    /\ Len(state.filteredFurniture) = 1


\* C21: a message displayed by showMessage stays in view for 3000 ms after
\* the call that displayed it, and is hidden then: while it is displayed no
\* more than 3000 ms have passed since that call, and the box goes from
\* displayed to hidden only at 3000 ms after that call, also when an
\* earlier message was still in view at the call.
C21_MessageStaysFor3000 ==
    /\ [](messageBox.display = "block"
              => messageBox.clock <= messageBox.shownAt + 3000)
    /\ [][(messageBox.display = "block" /\ messageBox'.display = "none")
              => messageBox.clock = messageBox.shownAt + 3000]_vars


\* Every image occurs in b as many times as in a.
SameImages(a, b) ==
    \A u \in FormImages :
        Cardinality({k \in DOMAIN a : a[k] = u}) = Cardinality({k \in DOMAIN b : b[k] = u})

\* arr without its element at position p (from 1).
Without(arr, p) == [k \in 1..(Len(arr) - 1) |-> IF k < p THEN arr[k] ELSE arr[k + 1]]

\* C22: reordering the images of the item form only permutes them.
\* moveImage exchanges the image at fromIndex with its neighbour at
\* fromIndex + direction and leaves the rest in place, and changes nothing
\* when that index is outside the list; a drop of the image at index i on
\* index j puts that image at position j and keeps the order of the others;
\* both keep every image as many times as it was there; and a successful
\* save stores the list in the order it has then, the image at index 0 first.
C22_ReorderOnlyPermutes ==
    [][/\ \A fromIndex \in 0..(MaxFormImages - 1), direction \in {-1, 1} :
              MoveImage(fromIndex, direction) =>
                  LET toIndex == fromIndex + direction
                      n == Len(uploadedImages)
                  IN  IF toIndex < 0 \/ toIndex >= n
                      THEN uploadedImages' = uploadedImages /\ messageBox' = messageBox
                      ELSE /\ Len(uploadedImages') = n
                           /\ uploadedImages'[toIndex + 1] = uploadedImages[fromIndex + 1]
                           /\ uploadedImages'[fromIndex + 1] = uploadedImages[toIndex + 1]
                           /\ \A k \in (1..n) \ {fromIndex + 1, toIndex + 1} :
                                  uploadedImages'[k] = uploadedImages[k]
                           /\ SameImages(uploadedImages, uploadedImages')
       /\ \A i \in 0..(MaxFormImages - 1), j \in 0..(MaxFormImages - 1) :
              DropImage(i, j) =>
                  /\ Len(uploadedImages') = Len(uploadedImages)
                  /\ uploadedImages'[j + 1] = uploadedImages[i + 1]
                  /\ Without(uploadedImages', j + 1) = Without(uploadedImages, i + 1)
                  /\ SameImages(uploadedImages, uploadedImages')
       /\ (last' # last /\ last'.op = "saveItem" /\ last'.ret) =>
              \A input \in FormInputs, rnd \in RandomSuffixes :
                  SaveItem(input, rnd) =>
                      LET saved == loadItems(localStorage')[SavedIndex] IN
                      /\ saved.images = uploadedImages
                      /\ saved.images[1] = uploadedImages[1]]_vars

\* Three images have been brought into another order in the form (a list of
\* three is never the outcome of a removal), the message of the reordering
\* is in the box, and the third of them is now the first.
C22_Witness ==
    /\ formOpen
    /\ uploadedImages = <<"img3", "img1", "img2">>
    /\ messageBox.display = "block" /\ messageBox.type = "info"
    /\ messageBox.shownAt = messageBox.clock
    /\ messageBox.clock = 1000


\* The page as loadFurnitureData leaves it for the given items, and what it
\* shows after the filter, the sort and the query of st have been set on it
\* in that order, one call each.
FreshPage(furniture) ==
    [InitialState EXCEPT !.furniture = furniture, !.filteredFurniture = furniture]

ShownInOrder(st) ==
    handleSearch(handleSortChange(handleFilterClick(FreshPage(st.furniture),
        st.currentFilter), st.currentSort), st.searchQuery).filteredFurniture

\* A call's outcome shows what the calls in the fixed order show, and has
\* the items the page had.
OrderFree(before, after) ==
    /\ after.furniture = before.furniture
    /\ after.filteredFurniture = ShownInOrder(after)

\* C23: what the page shows after a call of handleFilterClick,
\* handleSortChange or handleSearch depends only on state.furniture and the
\* filter, sort and query then in force: whatever calls came before, it is
\* what a fresh page with the same items shows after the three values were
\* set in a fixed order; and the call leaves state.furniture as it was.
C23_PipelineOrderIndependent ==
    /\ [](showPc # "unopened" =>
             /\ \A filterValue \in Filters :
                    OrderFree(state, handleFilterClick(state, filterValue))
             /\ \A sortValue \in SortMethods :
                    OrderFree(state, handleSortChange(state, sortValue))
             /\ \A query \in Queries :
                    OrderFree(state, handleSearch(state, query)))
    /\ [][(\/ \E filterValue \in Filters : HandleFilterClick(filterValue)
           \/ \E sortValue \in SortMethods : HandleSortChange(sortValue)
           \/ \E query \in Queries : HandleSearch(query))
              => OrderFree(state, state')]_vars

\* Filter, sort and query have all been set on a page of two items, and the
\* page shows the one that passes both the filter and the query.
C23_Witness ==
    /\ showPc = "ready"
    /\ state.currentFilter = "available"
    /\ state.currentSort = "price-high"
    /\ state.searchQuery = <<"C">>
    /\ Len(state.furniture) = 2
    /\ state.filteredFurniture = <<Chair>>

====
